---- MODULE Spec2Model ----
(***************************************************************************)
(* Model of webpack.config.js: the evaluation of the configuration module  *)
(* (environment -> DEVELOPMENT -> client descriptor -> production plugins  *)
(* -> server descriptor -> module.exports) and of the three places where   *)
(* the bundler consults the descriptors: loader rules against a resource   *)
(* path, the server externals list against a module request, and the       *)
(* minification plugins' include/exclude filters against an output file.   *)
(*                                                                         *)
(* Strings that regular expressions are tested on are sequences of         *)
(* one-character strings, so the expressions are evaluated character by    *)
(* character.                                                              *)
(***************************************************************************)
EXTENDS Integers, Sequences, FiniteSets, TLC

VARIABLES env, pc, DEVELOPMENT, client, server, exports,
          probe, matched, external, minifiedBy, prevServer

vars == <<env, pc, DEVELOPMENT, client, server, exports,
          probe, matched, external, minifiedBy, prevServer>>

(***************************************************************************)
(* Bounds of the model.                                                    *)
(***************************************************************************)
MaxPathParts == 4
MaxRequestParts == 2
MaxNameParts == 2
MaxChunkId == 10

(***************************************************************************)
(* process.env: a partial map from variable names to strings.              *)
(***************************************************************************)
EnvNames == {"NODE_ENV", "HMR"}

NODE_ENV_VALUES == {"development", "production", "Development", ""}

HMR_VALUES == {"", "0", "false", "1"}

EnvValues(name) == IF name = "NODE_ENV" THEN NODE_ENV_VALUES ELSE HMR_VALUES

Environments ==
  { e \in UNION { [D -> NODE_ENV_VALUES \cup HMR_VALUES] : D \in SUBSET EnvNames } :
      \A n \in DOMAIN e : e[n] \in EnvValues(n) }

\* process.env.X: the string, or undefined when the variable is unset.
GetEnv(e, name) ==
  IF name \in DOMAIN e THEN [defined |-> TRUE, str |-> e[name]]
  ELSE [defined |-> FALSE, str |-> ""]

\* Variant of Truthy: any defined value counts, the empty string included.
TruthyWhenDefined(v) == v.defined

\* JavaScript truthiness of a value that is a string or undefined.
Truthy(v) == v.defined /\ v.str # ""

\* Variant of IsDevelopment: everything but 'production' is development.
IsDevelopmentUnlessProduction(e) ==
  LET v == GetEnv(e, "NODE_ENV") IN ~ (v.defined /\ v.str = "production")

\* process.env.NODE_ENV === 'development'
IsDevelopment(e) ==
  LET v == GetEnv(e, "NODE_ENV") IN v.defined /\ v.str = "development"

(***************************************************************************)
(* Character strings and the regular expressions of the file.              *)
(***************************************************************************)
RECURSIVE Flatten(_)
Flatten(parts) ==
  IF parts = <<>> THEN <<>> ELSE Head(parts) \o Flatten(Tail(parts))

EndsWith(s, suf) ==
  Len(s) >= Len(suf) /\ SubSeq(s, Len(s) - Len(suf) + 1, Len(s)) = suf

StartsWith(s, pre) ==
  Len(s) >= Len(pre) /\ SubSeq(s, 1, Len(pre)) = pre

Contains(s, sub) ==
  \E i \in 1..(Len(s) - Len(sub) + 1) : SubSeq(s, i, i + Len(sub) - 1) = sub

LowerCase == {"a","b","c","d","e","f","g","h","i","j","k","l","m",
              "n","o","p","q","r","s","t","u","v","w","x","y","z"}

Digits == <<"0","1","2","3","4","5","6","7","8","9">>

DigitSet == { Digits[i] : i \in 1..Len(Digits) }

RE_JS == "/\\.jsx?$/"
RE_JSON == "/\\.json$/"
RE_CSS == "/\\.css$/"
RE_NODE_MODULES == "/node_modules/"
RE_GLOBAL_CSS == "/\\.global\\.css$/"
RE_MAIN == "/main/"
RE_PACKAGE == "/^[a-z\\-0-9]+$/"

S_css == <<".","c","s","s">>
S_js == <<".","j","s">>
S_global == <<".","g","l","o","b","a","l">>
S_node_modules == <<"n","o","d","e","_","m","o","d","u","l","e","s">>
S_main == <<"m","a","i","n">>
S_common == <<"c","o","m","m","o","n">>

\* RegExp.prototype.test for the expressions of the file.
RegexTest(re, s) ==
  CASE re = RE_JS -> EndsWith(s, S_js) \/ EndsWith(s, S_js \o <<"x">>)
    [] re = RE_JSON -> EndsWith(s, S_js \o <<"o","n">>)
    [] re = RE_CSS -> EndsWith(s, S_css)
    [] re = RE_NODE_MODULES -> Contains(s, S_node_modules)
    [] re = RE_GLOBAL_CSS -> EndsWith(s, S_global \o S_css)
    [] re = RE_MAIN -> Contains(s, S_main)
    [] re = RE_PACKAGE ->
         Len(s) > 0 /\ \A i \in 1..Len(s) : s[i] \in LowerCase \cup {"-"} \cup DigitSet

(***************************************************************************)
(* Loader chains.  A chain "a?x&y!b" is the sequence of its loaders, each  *)
(* with the sequence of its query parameters.                              *)
(***************************************************************************)
CSS_MODULES_CLASS_PATTERN == "[name]__[local]___[hash:base64:5]"

CSS_MODULES_PACK == "cssmodules"

CSS_PACK == "css"

Loader(name, query) == [loader |-> name, query |-> query]

\* `${head}?modules&localIdentName=...&importLoaders=1!postcss-loader?pack=cssmodules`
CSS_MODULES(head) ==
  << Loader(head, << "modules",
                     "localIdentName=" \o CSS_MODULES_CLASS_PATTERN,
                     "importLoaders=1" >>),
     Loader("postcss-loader", << "pack=" \o CSS_MODULES_PACK >>) >>

EXTRACT_LOADER == "extract-text-webpack-plugin/loader"

\* ExtractTextPlugin.extract(before, loader)
Extract(before, chain) ==
  << Loader(EXTRACT_LOADER, << "omit=1", "extract", "remove" >>) >> \o before \o chain

STYLE_LOADER == << Loader("style-loader", <<>>) >>

CSS_MODULES_LOADERS ==
  [ CLASSNAMES_ONLY |-> CSS_MODULES("css-loader/locals"),
    STYLETAGS |-> STYLE_LOADER \o CSS_MODULES("css-loader"),
    FILE |-> Extract(STYLE_LOADER, CSS_MODULES("css-loader")) ]

CSS_LOADERS ==
  [ STYLETAGS |-> STYLE_LOADER \o << Loader("css-loader", <<>>) >>,
    FILE |-> Extract(STYLE_LOADER,
                     << Loader("css-loader", <<>>),
                        Loader("postcss-loader", << "pack=" \o CSS_PACK >>) >>) ]

NULL_LOADER == << Loader("null-loader", <<>>) >>

JS_LOADER ==
  [ test |-> RE_JS, loader |-> << Loader("babel-loader", <<>>) >>,
    exclude |-> << RE_NODE_MODULES >> ]

JSON_LOADER ==
  [ test |-> RE_JSON, loader |-> << Loader("json-loader", <<>>) >> ]

\* Variant of CssModulesRule: the .global.css exclusion is missing.
CssModulesRuleWithoutGlobalExclude(chain) ==
  [ test |-> "/\\.css$/", exclude |-> << "/node_modules/" >>, loader |-> chain ]

\* The "CSS Modules" rule of both descriptors.
CssModulesRule(chain) ==
  [ test |-> RE_CSS, exclude |-> << RE_NODE_MODULES, RE_GLOBAL_CSS >>, loader |-> chain ]

\* The "CSS in node_modules" rule of both descriptors.
NodeModulesCssRule(chain) ==
  [ test |-> RE_CSS, include |-> << RE_NODE_MODULES >>, loader |-> chain ]

\* The "Global CSS aka .global.css files" rule of both descriptors.
GlobalCssRule(chain) ==
  [ test |-> RE_GLOBAL_CSS, loader |-> chain ]

\* A rule applies to a resource when test and include match and no exclude does.
RuleMatches(rule, path) ==
  /\ RegexTest(rule.test, path)
  /\ "include" \in DOMAIN rule =>
       \E i \in 1..Len(rule.include) : RegexTest(rule.include[i], path)
  /\ "exclude" \in DOMAIN rule =>
       ~ \E i \in 1..Len(rule.exclude) : RegexTest(rule.exclude[i], path)

\* The indexes of the rules of a descriptor that apply to a resource.
MatchingRules(config, path) ==
  { i \in 1..Len(config.module.loaders) : RuleMatches(config.module.loaders[i], path) }

(***************************************************************************)
(* The client descriptor.                                                  *)
(***************************************************************************)
Devtool(dev) == IF dev THEN "cheap-module-source-map" ELSE "source-map"

ALIAS == [ common |-> "src/styles/common.css" ]

\* Variant of ClientLoaders: node_modules CSS is always injected as style tags.
ClientLoadersWithInlineNodeModules(dev) ==
  << JS_LOADER,
     JSON_LOADER,
     CssModulesRule(IF dev THEN CSS_MODULES_LOADERS.STYLETAGS ELSE CSS_MODULES_LOADERS.FILE),
     NodeModulesCssRule(CSS_LOADERS.STYLETAGS),
     GlobalCssRule(IF dev THEN CSS_LOADERS.STYLETAGS ELSE CSS_LOADERS.FILE) >>

ClientLoaders(dev) ==
  << JS_LOADER,
     JSON_LOADER,
     CssModulesRule(IF dev THEN CSS_MODULES_LOADERS.STYLETAGS ELSE CSS_MODULES_LOADERS.FILE),
     NodeModulesCssRule(IF dev THEN CSS_LOADERS.STYLETAGS ELSE CSS_LOADERS.FILE),
     GlobalCssRule(IF dev THEN CSS_LOADERS.STYLETAGS ELSE CSS_LOADERS.FILE) >>

ClientConfig(dev) ==
  [ devtool |-> Devtool(dev),
    entry |-> [ main |-> << "./src/client" >>,
                vendor |-> << "events", "lodash", "react", "react-addons-update",
                              "react-dom", "react-router", "superagent" >> ],
    output |-> [ path |-> "build/client", filename |-> "[name].js",
                 chunkFilename |-> "[id].chunk.js", publicPath |-> "/static/" ],
    resolve |-> [ alias |-> ALIAS ],
    module |-> [ loaders |-> ClientLoaders(dev) ],
    postcss |-> [ cssmodules |-> << "postcss-import", "autoprefixer" >>,
                  css |-> << "autoprefixer" >> ],
    plugins |-> << [ plugin |-> "CommonsChunkPlugin",
                     options |-> [ name |-> "vendor", minChunks |-> "Infinity" ] ] >> ]

\* The plugins pushed on the client descriptor outside development.
ProductionPlugins ==
  << [ plugin |-> "ExtractTextPlugin",
       options |-> [ filename |-> "[name].css", allChunks |-> FALSE ] ],
     [ plugin |-> "UglifyJsPlugin",
       options |-> [ include |-> RE_MAIN ] ],
     [ plugin |-> "UglifyJsPlugin",
       options |-> [ exclude |-> RE_MAIN, sourceMap |-> FALSE,
                     compress |-> [ warnings |-> FALSE ],
                     output |-> [ comments |-> FALSE ] ] ] >>

\* Variant of PushPlugins: the plugins are pushed in every mode.
PushPluginsInEveryMode(dev, config) ==
  [ config EXCEPT !.plugins = @ \o ProductionPlugins ]

\* if (!DEVELOPMENT) client.plugins.push(...)
PushPlugins(dev, config) ==
  IF ~dev THEN [ config EXCEPT !.plugins = @ \o ProductionPlugins ] ELSE config

(***************************************************************************)
(* The server descriptor.                                                  *)
(***************************************************************************)
\* Variant of ServerLoaders: CSS Modules follow the mode, as on the client.
ServerLoadersByMode(dev) ==
  << JS_LOADER,
     JSON_LOADER,
     CssModulesRule(IF dev THEN CSS_MODULES_LOADERS.STYLETAGS
                    ELSE CSS_MODULES_LOADERS.CLASSNAMES_ONLY),
     NodeModulesCssRule(NULL_LOADER),
     GlobalCssRule(NULL_LOADER) >>

ServerLoaders(dev) ==
  << JS_LOADER,
     JSON_LOADER,
     CssModulesRule(CSS_MODULES_LOADERS.CLASSNAMES_ONLY),
     NodeModulesCssRule(NULL_LOADER),
     GlobalCssRule(NULL_LOADER) >>

EXTERNALS ==
  << [ type |-> "regexp", re |-> RE_PACKAGE ],
     [ type |-> "object", map |-> (S_common :> FALSE) ] >>

ServerConfig(dev) ==
  [ devtool |-> Devtool(dev),
    entry |-> "./src/server.js",
    target |-> "node",
    externals |-> EXTERNALS,
    resolve |-> [ alias |-> ALIAS ],
    output |-> [ path |-> "build/server", filename |-> "index.js",
                 libraryTarget |-> "commonjs2" ],
    node |-> [ filename |-> TRUE, dirname |-> TRUE ],
    module |-> [ loaders |-> ServerLoaders(dev) ],
    postcss |-> [ cssmodules |-> << "postcss-import" >> ],
    plugins |-> << [ plugin |-> "BannerPlugin",
                     options |-> [ banner |-> "require(\"source-map-support\").install();",
                                   raw |-> TRUE, entryOnly |-> FALSE ] ] >> ]

\* The externals list decides a request entry by entry, in order: a regular
\* expression that matches makes it external; an object that has the request
\* as a key makes it external unless the value is false; an entry that does
\* neither passes the request on, and a request no entry decides is bundled.
RECURSIVE HandleExternals(_, _, _)
HandleExternals(externals, i, request) ==
  IF i > Len(externals) THEN "bundled"
  ELSE LET e == externals[i] IN
       IF e.type = "regexp"
       THEN IF RegexTest(e.re, request) THEN "external"
            ELSE HandleExternals(externals, i + 1, request)
       ELSE IF request \in DOMAIN e.map
            THEN IF e.map[request] = FALSE THEN "bundled" ELSE "external"
            ELSE HandleExternals(externals, i + 1, request)

(***************************************************************************)
(* module.exports = process.env.HMR ? server : [client, server]            *)
(***************************************************************************)
Exports(e, c, s) ==
  IF Truthy(GetEnv(e, "HMR"))
  THEN [ isArray |-> FALSE, configs |-> << s >> ]
  ELSE [ isArray |-> TRUE, configs |-> << c, s >> ]

(***************************************************************************)
(* Output file names of the client build and the minification filters.     *)
(***************************************************************************)
RECURSIVE ToChars(_)
ToChars(n) ==
  IF n < 10 THEN << Digits[n + 1] >>
  ELSE ToChars(n \div 10) \o << Digits[(n % 10) + 1] >>

\* output.filename: '[name].js'
Filename(name) == name \o S_js

\* output.chunkFilename: '[id].chunk.js'
ChunkFilename(id) == ToChars(id) \o <<".","c","h","u","n","k">> \o S_js

\* Variant of MatchObject: the exclude option is ignored.
MatchObjectIgnoringExclude(options, file) ==
  "include" \in DOMAIN options => RegexTest(options.include, file)

\* The include/exclude filter of a minification plugin.
MatchObject(options, file) ==
  /\ "include" \in DOMAIN options => RegexTest(options.include, file)
  /\ "exclude" \in DOMAIN options => ~ RegexTest(options.exclude, file)

\* The indexes of the minification plugins of a descriptor that process a file.
Minifiers(config, file) ==
  { i \in 1..Len(config.plugins) :
      /\ config.plugins[i].plugin = "UglifyJsPlugin"
      /\ MatchObject(config.plugins[i].options, file) }

(***************************************************************************)
(* Inputs.                                                                 *)
(***************************************************************************)
Strings(fragments, n) ==
  { Flatten(ps) : ps \in UNION { [1..k -> fragments] : k \in 1..n } }

PathFragments ==
  { S_node_modules \o <<"/">>, <<"a">>, <<"g","l","o","b","a","l">>,
    S_global, S_css, S_js }

Paths == Strings(PathFragments, MaxPathParts)

RequestFragments ==
  { <<"r","e","a","c","t","-","d","o","m">>, <<"/","s","e","r","v","e","r">>,
    <<"@","s","/","p">>, <<"s","o","c","k","e","t",".","i","o">>,
    <<"l","o","d","a","s","h","_","x">>, <<"J","S","O","N">>, <<"b","a","s","e","6","4">>,
    S_common, <<".","/">> }

Requests == Strings(RequestFragments, MaxRequestParts)

NameFragments ==
  { S_main, <<"v","e","n","d","o","r">>, <<"m","a">>, <<"i","n">>, <<"d","o">> }

Names == Strings(NameFragments, MaxNameParts)

OutputFiles ==
  { Filename(n) : n \in Names } \cup { ChunkFilename(id) : id \in 0..MaxChunkId }

(***************************************************************************)
(* State machine.                                                          *)
(***************************************************************************)
Undefined == [ undefined |-> TRUE ]

NoProbe == [ kind |-> "none", input |-> <<>> ]

NoMatch == [ client |-> {}, server |-> {} ]

Init ==
  /\ env \in Environments
  /\ pc = "start"
  /\ DEVELOPMENT = FALSE
  /\ client = Undefined
  /\ server = Undefined
  /\ exports = [ isArray |-> FALSE, configs |-> <<>> ]
  /\ probe = NoProbe
  /\ matched = NoMatch
  /\ external = "none"
  /\ minifiedBy = {}
  /\ prevServer = Undefined

\* const DEVELOPMENT = process.env.NODE_ENV === 'development';
EvalDevelopment ==
  /\ pc = "start"
  /\ DEVELOPMENT' = IsDevelopment(env)
  /\ pc' = "client"
  /\ UNCHANGED <<env, client, server, exports, probe, matched, external,
                 minifiedBy, prevServer>>

\* const client = { ... };
BuildClient ==
  /\ pc = "client"
  /\ client' = ClientConfig(DEVELOPMENT)
  /\ pc' = "push"
  /\ UNCHANGED <<env, DEVELOPMENT, server, exports, probe, matched, external,
                 minifiedBy, prevServer>>

\* if (!DEVELOPMENT) { client.plugins.push(...) }
PushProductionPlugins ==
  /\ pc = "push"
  /\ client' = PushPlugins(DEVELOPMENT, client)
  /\ pc' = "server"
  /\ UNCHANGED <<env, DEVELOPMENT, server, exports, probe, matched, external,
                 minifiedBy, prevServer>>

\* const server = { ... };
BuildServer ==
  /\ pc = "server"
  /\ server' = ServerConfig(DEVELOPMENT)
  /\ pc' = "export"
  /\ UNCHANGED <<env, DEVELOPMENT, client, exports, probe, matched, external,
                 minifiedBy, prevServer>>

\* module.exports = process.env.HMR ? server : [client, server];
Export ==
  /\ pc = "export"
  /\ exports' = Exports(env, client, server)
  /\ pc' = "done"
  /\ UNCHANGED <<env, DEVELOPMENT, client, server, probe, matched, external,
                 minifiedBy, prevServer>>

\* The loader rules of both descriptors are matched against a resource path.
MatchLoaders ==
  /\ pc = "done"
  /\ \E path \in Paths :
       /\ probe' = [ kind |-> "loaders", input |-> path ]
       /\ matched' = [ client |-> MatchingRules(client, path),
                       server |-> MatchingRules(server, path) ]
  /\ pc' = "consumed"
  /\ UNCHANGED <<env, DEVELOPMENT, client, server, exports, external,
                 minifiedBy, prevServer>>

\* The server externals list decides a module request.
ResolveExternal ==
  /\ pc = "done"
  /\ \E request \in Requests :
       /\ probe' = [ kind |-> "externals", input |-> request ]
       /\ external' = HandleExternals(server.externals, 1, request)
  /\ pc' = "consumed"
  /\ UNCHANGED <<env, DEVELOPMENT, client, server, exports, matched,
                 minifiedBy, prevServer>>

\* The minification plugins of the client descriptor filter an output file.
Minify ==
  /\ pc = "done"
  /\ \E file \in OutputFiles :
       /\ probe' = [ kind |-> "minify", input |-> file ]
       /\ minifiedBy' = Minifiers(client, file)
  /\ pc' = "consumed"
  /\ UNCHANGED <<env, DEVELOPMENT, client, server, exports, matched,
                 external, prevServer>>

\* The module is evaluated again under another environment; the server
\* descriptor of the evaluation before is kept for comparison.
Reevaluate ==
  /\ pc = "done"
  /\ prevServer' = server
  /\ env' \in Environments
  /\ pc' = "start"
  /\ UNCHANGED <<DEVELOPMENT, client, server, exports, probe, matched,
                 external, minifiedBy>>

Evaluate ==
  \/ EvalDevelopment
  \/ BuildClient
  \/ PushProductionPlugins
  \/ BuildServer
  \/ Export

Next ==
  \/ Evaluate
  \/ MatchLoaders
  \/ ResolveExternal
  \/ Minify

Spec == Init /\ [][Next]_vars

NextAgain ==
  \/ Evaluate
  \/ Reevaluate

SpecAgain == Init /\ [][NextAgain]_vars

(***************************************************************************)
(* Vocabulary of the properties.                                           *)
(***************************************************************************)
ClientComplete == pc \in {"server", "export", "done", "consumed"}

ServerBuilt == pc \in {"export", "done", "consumed"}

Exported == pc \in {"done", "consumed"}

HmrSet == "HMR" \in DOMAIN env

DevelopmentMode == "NODE_ENV" \in DOMAIN env /\ env["NODE_ENV"] = "development"

ProductionMode == ~ DevelopmentMode

PluginNames(config) == [ i \in 1..Len(config.plugins) |-> config.plugins[i].plugin ]

\* How a loader chain delivers CSS: extracted to a file, injected as a style
\* tag, or not at all.
Delivery(chain) ==
  IF chain[1].loader = "extract-text-webpack-plugin/loader" THEN "file"
  ELSE IF chain[1].loader = "style-loader" THEN "styletag"
  ELSE "none"

\* A loader chain scopes class names when one of its loaders has the
\* 'modules' query parameter.
Scoping(chain) ==
  \E i \in 1..Len(chain) : \E j \in 1..Len(chain[i].query) : chain[i].query[j] = "modules"

CssRules(config) ==
  { i \in 1..Len(config.module.loaders) :
      config.module.loaders[i].test \in { "/\\.css$/", "/\\.global\\.css$/" } }

ChainOf(config, i) == config.module.loaders[i].loader

IsCssPath(p) == EndsWith(p, <<".","c","s","s">>)

IsGlobalCssPath(p) == EndsWith(p, <<".","g","l","o","b","a","l",".","c","s","s">>)

UnderNodeModules(p) == StartsWith(p, <<"n","o","d","e","_","m","o","d","u","l","e","s","/">>)

\* A request that is neither a relative nor an absolute path.
IsPackageRequest(r) == Len(r) > 0 /\ r[1] \notin {".", "/"}

ServerAlone == [ isArray |-> FALSE, configs |-> << server >> ]

ClientAndServer == [ isArray |-> TRUE, configs |-> << client, server >> ]

(***************************************************************************)
(* C1                                                                      *)
(***************************************************************************)
\* C1 (as stated): when HMR is unset the export is the sequence
\* [client, server]; when HMR is set to any string, the empty string
\* included, the export is the server descriptor alone.
C1_ExportFollowsHmrBeingSet ==
  Exported => exports = IF HmrSet THEN ServerAlone ELSE ClientAndServer

\* C1 (amended): when HMR is unset or the empty string the export is the
\* sequence [client, server]; when HMR is a non-empty string ('0' and 'false'
\* included) the export is the server descriptor alone; for every NODE_ENV.
C1_ExportFollowsHmrTruthiness ==
  Exported =>
    exports = IF HmrSet /\ env["HMR"] # "" THEN ServerAlone ELSE ClientAndServer

C1_Witness ==
  /\ pc = "done"
  /\ HmrSet
  /\ env["HMR"] = ""
  /\ exports.isArray
  /\ exports.configs = << client, server >>

C3_DevelopmentClientInline ==
  (ClientComplete /\ DevelopmentMode) =>
    /\ PluginNames(client) = << "CommonsChunkPlugin" >>
    /\ Cardinality(CssRules(client)) = 3
    /\ \A i \in CssRules(client) : Delivery(ChainOf(client, i)) = "styletag"

C3_Witness ==
  /\ pc = "done"
  /\ DevelopmentMode
  /\ DEVELOPMENT
  /\ Len(client.plugins) = 1

(***************************************************************************)
(* C4                                                                      *)
(***************************************************************************)
\* C4: for a path ending in '.global.css', in both descriptors and every
\* mode, the one rule whose chain scopes class names does not match, so no
\* chain applied to the file scopes class names.
C4_GlobalCssNotScoped ==
  (probe.kind = "loaders" /\ IsGlobalCssPath(probe.input)) =>
    /\ Cardinality({ i \in CssRules(client) : Scoping(ChainOf(client, i)) }) = 1
    /\ Cardinality({ i \in CssRules(server) : Scoping(ChainOf(server, i)) }) = 1
    /\ \A i \in matched.client : ~ Scoping(ChainOf(client, i))
    /\ \A i \in matched.server : ~ Scoping(ChainOf(server, i))

C4_Witness ==
  /\ probe.kind = "loaders"
  /\ IsGlobalCssPath(probe.input)
  /\ UnderNodeModules(probe.input)
  /\ matched.client # {}
  /\ matched.server # {}

(***************************************************************************)
(* C5                                                                      *)
(***************************************************************************)
\* C5: every request that names a package (scoped names, names with a dot,
\* an underscore or an upper-case letter, and sub-paths included) other than
\* the 'common' alias is external in the server descriptor.
C5_PackagesAreExternal ==
  (probe.kind = "externals" /\ IsPackageRequest(probe.input)
     /\ probe.input # <<"c","o","m","m","o","n">>) =>
    external = "external"

(***************************************************************************)
(* C6                                                                      *)
(***************************************************************************)
\* C6: the server rules and plugins are the same in every environment (CSS
\* Modules through the class-names-only chain, the other CSS through
\* null-loader, no injection, no extraction), and the server descriptors of
\* two evaluations differ in nothing but devtool.
C6_ServerIndependentOfMode ==
  ServerBuilt =>
    /\ ChainOf(server, 3) = CSS_MODULES("css-loader/locals")
    /\ ChainOf(server, 4) = << [ loader |-> "null-loader", query |-> <<>> ] >>
    /\ ChainOf(server, 5) = << [ loader |-> "null-loader", query |-> <<>> ] >>
    /\ CssRules(server) = { 3, 4, 5 }
    /\ \A i \in CssRules(server) : Delivery(ChainOf(server, i)) = "none"
    /\ PluginNames(server) = << "BannerPlugin" >>
    /\ prevServer # Undefined =>
         /\ server.module = prevServer.module
         /\ server.plugins = prevServer.plugins
         /\ [ server EXCEPT !.devtool = "" ] = [ prevServer EXCEPT !.devtool = "" ]

C6_Witness ==
  /\ pc = "done"
  /\ prevServer # Undefined
  /\ prevServer.devtool # server.devtool

(***************************************************************************)
(* C7                                                                      *)
(***************************************************************************)
\* C7: the request 'common' is not external in the server descriptor: it is
\* bundled.
C7_CommonIsBundled ==
  (probe.kind = "externals" /\ probe.input = <<"c","o","m","m","o","n">>) =>
    external = "bundled"

(***************************************************************************)
(* C8                                                                      *)
(***************************************************************************)
\* C8: in production mode every output file is processed by exactly one of
\* the two minification plugins: the one restricted to /main/ when the name
\* contains 'main', the comments-only one otherwise.
C8_MinifiersPartitionFiles ==
  (probe.kind = "minify" /\ ProductionMode) =>
    /\ Cardinality(minifiedBy) = 1
    /\ minifiedBy = IF Contains(probe.input, <<"m","a","i","n">>) THEN { 3 } ELSE { 4 }

C8_Witness ==
  /\ probe.kind = "minify"
  /\ ProductionMode
  /\ probe.input = <<"d","o","m","a","i","n",".","j","s">>
  /\ minifiedBy = { 3 }

(***************************************************************************)
(* C9                                                                      *)
(***************************************************************************)
\* C9: in every environment the three client CSS rules deliver CSS the same
\* way, by style tags or by file extraction, and a rule extracts if and only
\* if the client plugin list holds an ExtractTextPlugin.
C9_ClientCssDeliveryConsistent ==
  ClientComplete =>
    /\ Cardinality(CssRules(client)) = 3
    /\ \A i, j \in CssRules(client) :
         Delivery(ChainOf(client, i)) = Delivery(ChainOf(client, j))
    /\ \A i \in CssRules(client) :
         /\ Delivery(ChainOf(client, i)) \in { "styletag", "file" }
         /\ Delivery(ChainOf(client, i)) = "file" <=>
              \E k \in 1..Len(client.plugins) : client.plugins[k].plugin = "ExtractTextPlugin"

C9_Witness ==
  /\ pc = "done"
  /\ HmrSet
  /\ \A i \in CssRules(client) : Delivery(ChainOf(client, i)) = "file"
  /\ \E k \in 1..Len(client.plugins) : client.plugins[k].plugin = "ExtractTextPlugin"

(***************************************************************************)
(* C10                                                                     *)
(***************************************************************************)
\* C10: in each descriptor every path ending in '.css' is matched by exactly
\* one of the three CSS rules, a '.global.css' file under node_modules
\* included.
C10_ExactlyOneCssRule ==
  (probe.kind = "loaders" /\ IsCssPath(probe.input)) =>
    /\ Cardinality(matched.client \cap CssRules(client)) = 1
    /\ Cardinality(matched.server \cap CssRules(server)) = 1

====
